---- MODULE Spec2Model ----
(***************************************************************************)
(* The WebSocket relay of server/routes.ts: the registry of device (RPi)   *)
(* connections, the set of viewer (UI) connections, the upgrade router and *)
(* the message / close handlers attached to each connection.               *)
(*                                                                         *)
(* Node runs every handler to completion on one thread, so each handler is *)
(* one atomic action.  A connection handle is a number; handles are given  *)
(* out in increasing order and never reused, so a larger handle is a later *)
(* connection.                                                             *)
(*                                                                         *)
(* The viewer page's hook client/src/hooks/use-websocket.ts is modelled    *)
(* next to it: its sockets, its timers, its refs and its React state.      *)
(***************************************************************************)
EXTENDS Integers, Sequences, FiniteSets, TLC

\* ------------------------------------------------------------------ bounds
\* Connections ever accepted in one run.
MaxConn == 3

Handles == 1..MaxConn
\* WebSocket objects the hook ever creates in one run.
MaxSockets == 5
SocketIds == 1..MaxSockets
\* "no connection": the undefined a Map.get answers for a missing key.
None == 0

\* --------------------------------------------------------------- JS values
\* A JavaScript value carries its type.  Text that the code inspects character
\* by character (the camera frame) is a sequence of characters, field cs.
Undefined == [t |-> "undefined"]
Null == [t |-> "null"]
Str(s) == [t |-> "string", v |-> s]
Num(n) == [t |-> "number", v |-> n]
Chars(s) == [t |-> "string", cs |-> s]

IsChars(x) == x.t = "string" /\ "cs" \in DOMAIN x

\* JavaScript truthiness: undefined, null, "" and 0 are falsy.
Truthy(x) ==
    CASE x.t = "undefined" -> FALSE
      [] x.t = "null" -> FALSE
      [] x.t = "number" -> x.v # 0
      [] IsChars(x) -> x.cs # <<>>
      [] OTHER -> x.v # ""

\* String(x) and x.toString() on the numbers and strings of the model.
NumText == [n \in 0..9 |-> CASE n = 0 -> "0" [] n = 1 -> "1" [] n = 2 -> "2"
                            [] n = 3 -> "3" [] n = 4 -> "4" [] n = 5 -> "5"
                            [] n = 6 -> "6" [] n = 7 -> "7" [] n = 8 -> "8"
                            [] OTHER -> "9"]
String(x) ==
    CASE x.t = "undefined" -> "undefined"
      [] x.t = "null" -> "null"
      [] x.t = "number" -> NumText[x.v]
      [] OTHER -> x.v

\* obj.field of a parsed object: undefined when the field is missing.
Field(obj, f) == IF f \in DOMAIN obj THEN obj[f] ELSE Undefined

\* JSON.stringify of an object literal: fields whose value is undefined are
\* left out of the text.
JSONstringify(obj) == [f \in {g \in DOMAIN obj : obj[g] # Undefined} |-> obj[f]]

\* ------------------------------------------------------------ JS Map
\* A Map is its set of <<key, value>> entries.
MapKeys(m) == {e[1] : e \in m}
MapHas(m, k) == \E e \in m : e[1] = k
MapGetAny(m, k) == IF m = {} THEN None ELSE (CHOOSE e \in m : TRUE)[2]
MapGet(m, k) == IF MapHas(m, k) THEN (CHOOSE e \in m : e[1] = k)[2] ELSE None
MapSetClearing(m, k, v) == {<<k, v>>}
MapSetKeepingOld(m, k, v) == m \cup {<<k, v>>}
MapSet(m, k, v) == {e \in m : e[1] # k} \cup {<<k, v>>}
MapDelete(m, k) == {e \in m : e[1] # k}

\* ------------------------------------------------------------------ state
VARIABLES
    kind,             \* handle -> "none" | "rpi" | "ui": which server accepted it
    readyState,       \* handle -> "NONE" | "OPEN" | "CLOSING" | "CLOSED"
    wsRpiId,          \* handle -> the rpiId closed over by a device connection
    clientStationId,  \* handle -> the viewer handler's clientStationId
    clientRpiId,      \* handle -> the viewer handler's clientRpiId
    rpiConnections,   \* Map rpiId -> device connection
    uiConnections,    \* Map client key -> viewer connection
    uiClients,        \* wssUI.clients, in insertion order
    throwing,         \* connections on which send() throws
    crashed,          \* an exception left a handler uncaught
    sent,             \* what the last handler sent: <<[to, env], ...>>
    last              \* the last handler run, its input, and the registry and
                      \* the viewer set as it found them

\* The hook useWebSocket of the viewer page.
VARIABLES
    mounted,              \* the effect's cleanup has not run
    webSockets,           \* socket -> [readyState, handlers, after]
    wsRef,                \* wsRef.current: a socket, or None for null
    reconnectTimeoutRef,  \* reconnectTimeoutRef.current: a timer, or None
    frameTimeoutRef,      \* frameTimeoutRef.current: "null" | "pending" | "fired"
    timers,               \* the setTimeout callbacks that are still to run
    state,                \* the useState value
    hookLast              \* the last hook callback, its input, what it
                          \* transmitted, and the lifecycle envelopes so far

relayVars == <<kind, readyState, wsRpiId, clientStationId, clientRpiId,
               rpiConnections, uiConnections, uiClients, throwing, crashed,
               sent, last>>
hookVars == <<mounted, webSockets, wsRef, reconnectTimeoutRef, frameTimeoutRef,
              timers, state, hookLast>>
vars == <<relayVars, hookVars>>

conn == <<kind, readyState, wsRpiId, clientStationId, clientRpiId>>

\* The record of a handler run.  When last.track is set the record also
\* keeps, as prev, the run before it and what that run sent.
NoPrev == [op |-> "none"]

\* The lifecycle envelopes: routes.ts:112-119 and routes.ts:195-202.
LifecycleTypes == {"rpi_connected", "rpi_disconnected"}

\* When last.seen.on is set, last.seen.ev[h][d] is the type of the latest
\* lifecycle envelope for identifier d that was passed to connection h by the
\* handler runs before the last one ("none" when there was none).
NoSeen == [on |-> FALSE]
SeenNothing == [on |-> TRUE,
                ev |-> [h \in Handles |-> [d \in {"rpi1", "rpi2"} |-> "none"]]]
LifecycleFor(sends, h, d) ==
    {i \in DOMAIN sends : /\ sends[i].to = h
                          /\ sends[i].env.type \in {Str(t) : t \in LifecycleTypes}
                          /\ sends[i].env.rpiId = Str(d)}
SeenAfter(seen, sends) ==
    IF ~seen.on THEN seen
    ELSE [on |-> TRUE,
          ev |-> [h \in Handles |-> [d \in DOMAIN seen.ev[h] |->
                    IF LifecycleFor(sends, h, d) = {} THEN seen.ev[h][d]
                    ELSE LET i == CHOOSE j \in LifecycleFor(sends, h, d) :
                                    \A k \in LifecycleFor(sends, h, d) : k <= j
                         IN  sends[i].env.type.v]]]
Ran(op, ws, data) ==
    [op |-> op, conn |-> ws, data |-> data,
     registry |-> rpiConnections, clients |-> uiClients,
     track |-> last.track,
     seen |-> SeenAfter(last.seen, sent),
     prev |-> IF last.track
              THEN [op |-> last.op, conn |-> last.conn, data |-> last.data,
                    sent |-> sent]
              ELSE NoPrev]

\* use-websocket.ts:14-24, 31-34 and 36-87: the hook once its effect has run.
AllHandlers == {"onopen", "onclose", "onerror", "onmessage"}
NoSocket == [readyState |-> "NONE", handlers |-> {}, after |-> None]
NewWebSocket(handlers, after) ==
    [readyState |-> "CONNECTING", handlers |-> handlers, after |-> after]
InitialState ==
    [connectionStatus |-> FALSE, frame |-> Null, rpiStatus |-> {},
     lastResponse |-> Null, lastFrameTime |-> Null]
StartHook ==
    /\ mounted = TRUE
    /\ webSockets = [s \in SocketIds |->
                       IF s = 1 THEN NewWebSocket(AllHandlers, None) ELSE NoSocket]
    /\ wsRef = 1
    /\ reconnectTimeoutRef = None
    /\ frameTimeoutRef = "null"
    /\ timers = {}
    /\ state = InitialState
    /\ hookLast = [op |-> "mount", socket |-> 1, data |-> Undefined,
                   transmitted |-> <<>>,
                   heard |-> [d \in {"rpi1", "rpi2"} |-> "none"]]

Start(track, seen) ==
    /\ StartHook
    /\ kind = [h \in Handles |-> "none"]
    /\ readyState = [h \in Handles |-> "NONE"]
    /\ wsRpiId = [h \in Handles |-> Undefined]
    /\ clientStationId = [h \in Handles |-> Null]
    /\ clientRpiId = [h \in Handles |-> Null]
    /\ rpiConnections = {}
    /\ uiConnections = {}
    /\ uiClients = <<>>
    /\ throwing = {}
    /\ crashed = FALSE
    /\ sent = <<>>
    /\ last = [op |-> "init", conn |-> None, data |-> Undefined,
               registry |-> {}, clients |-> <<>>,
               track |-> track, seen |-> seen, prev |-> NoPrev]

Init == Start(FALSE, NoSeen)

\* ------------------------------------------------------ camera frame text
\* "data:" and "data:image/jpeg;base64," as characters.
DataScheme == <<"d", "a", "t", "a", ":">>
JpegPrefix == <<"d", "a", "t", "a", ":", "i", "m", "a", "g", "e", "/", "j", "p",
                "e", "g", ";", "b", "a", "s", "e", "6", "4", ",">>

\* s.startsWith(p)
StartsWith(s, p) == Len(s) >= Len(p) /\ SubSeq(s, 1, Len(p)) = p

\* The characters of the model that belong to the base64 alphabet.
Base64Alphabet == {"Q", "U", "J", "D", "I", "d", "a", "t", "i", "m", "g", "e",
                   "j", "p", "b", "s", "6", "4", "/"}
AsciiWhitespace == {" "}

\* atob(s) decodes s or throws.  The forgiving-base64 decode of the platform:
\* strip whitespace; when the length is a multiple of 4 drop one or two
\* trailing "="; fail on a length of 4k+1 and on any character outside the
\* alphabet.  TRUE when atob returns, FALSE when it throws.
StripWhitespace(s) == SelectSeq(s, LAMBDA c : c \notin AsciiWhitespace)
StripPadding(s) ==
    IF Len(s) % 4 # 0 \/ Len(s) = 0 THEN s
    ELSE IF s[Len(s)] # "=" THEN s
    ELSE IF s[Len(s) - 1] = "=" THEN SubSeq(s, 1, Len(s) - 2)
    ELSE SubSeq(s, 1, Len(s) - 1)
atobAccepts(s) ==
    LET body == StripPadding(StripWhitespace(s))
    IN  /\ Len(body) % 4 # 1
        /\ \A i \in 1..Len(body) : body[i] \in Base64Alphabet
atobAcceptsAnything(s) == TRUE
atobReturns(s) == atobAccepts(s)

\* Lines 137-149 of the device message handler: the frame to relay, or
\* Undefined when the frame is dropped.  A frame that is not a string has no
\* startsWith: the TypeError is caught by the handler's outer catch.
frameToSendAlwaysPrefixed(frame) ==
    IF ~IsChars(frame) THEN Undefined
    ELSE IF atobReturns(frame.cs) THEN Chars(JpegPrefix \o frame.cs)
    ELSE Undefined
frameToSend(frame) ==
    IF ~IsChars(frame) THEN Undefined
    ELSE LET isDataUrl == StartsWith(frame.cs, DataScheme)
         IN  IF isDataUrl THEN frame
             ELSE IF atobReturns(frame.cs) THEN Chars(JpegPrefix \o frame.cs)
             ELSE Undefined

\* ------------------------------------------------------------------ inputs
RpiIds == {"rpi1", "rpi2"}

\* request.url's pathname, as pathname.split('/') sees it: "/rpi/rpi1" is
\* <<"", "rpi", "rpi1">>, "/rpi/" is <<"", "rpi", "">>, "/ws" is <<"", "ws">>.
Pathnames == {<<"", "rpi", "rpi1">>, <<"", "rpi", "rpi2">>, <<"", "rpi", "">>,
              <<"", "appws">>, <<"", "ws">>}

\* More request paths: "/rpi", "/", "/rpi//x", "/rpi/rpi1/x", "/appws/",
\* "/rpix/a", "/RPI/rpi1", "/rpi/RPI1".
OtherPathnames == {<<"", "rpi">>, <<"", "">>, <<"", "rpi", "", "x">>,
                   <<"", "rpi", "rpi1", "x">>, <<"", "appws", "">>,
                   <<"", "rpix", "a">>, <<"", "RPI", "rpi1">>,
                   <<"", "rpi", "RPI1">>}

\* Camera frame payloads a device may send.
B64Abc == <<"Q", "U", "J", "D">>
FrameTexts == {
    B64Abc,                                  \* valid base64
    <<"Q", "U", "I", "=">>,                  \* valid, padded
    <<"Q", "U">>,                            \* valid, padding left out
    <<"d", "a", "t", "a">>,                  \* valid base64, no "data:" scheme
    <<"Q", "U", "J", "D", "Q">>,             \* length 4k+1
    <<"Q", "!", "J", "D">>,                  \* a character outside the alphabet
    <<"Q", "U", "=">>,                       \* misplaced padding
    JpegPrefix \o B64Abc,                    \* already a data URI
    DataScheme \o <<"!">>,                   \* "data:" scheme, anything after
    <<>> }                                   \* the empty string
FrameValues == {Chars(s) : s \in FrameTexts} \cup {Undefined, Num(7)}

\* What arrives on a connection: text JSON.parse rejects, or an object.
Unparseable == [json |-> FALSE]
Parsed(obj) == [json |-> TRUE, obj |-> obj]

CameraFrame(f) == Parsed([type |-> Str("camera_frame"), frame |-> f])
StatusFrame == Parsed([type |-> Str("status"), status |-> Str("ok"), message |-> Str("done")])
Command(rid, c, d) == Parsed([type |-> Str("move"), rpiId |-> rid, command |-> c, direction |-> d])
Register(sid, rid) == Parsed([type |-> Str("register"), stationId |-> sid, rpiId |-> rid])

\* The frames of the relay's everyday traffic.
RpiData == {Unparseable, StatusFrame, CameraFrame(Chars(B64Abc)),
            CameraFrame(Chars(<<"Q", "!", "J", "D">>))}
UiData == {Unparseable, Register(Num(1), Str("rpi1")),
           Command(Str("rpi1"), Str("move"), Str("up")),
           Command(Str("rpi2"), Undefined, Undefined),
           Command(Undefined, Str("move"), Str("up"))}

\* Every camera frame payload of the model, for the frame handling.
RpiFrameData == {StatusFrame} \cup {CameraFrame(f) : f \in FrameValues}
UiFrameData == {Command(Str("rpi1"), Str("move"), Str("up"))}

\* The frames fed to the relay whose sends may throw.
RpiFaultData == {StatusFrame, CameraFrame(Chars(B64Abc))}
UiFaultData == {Unparseable, Command(Str("rpi1"), Str("move"), Str("up"))}

\* ------------------------------------------------------------ fan-out
\* wssUI.clients.forEach(client => { if (client.readyState === OPEN) send }).
\* The result is what was sent, in order, and whether a send threw out of the
\* loop.  With perClientCatch each send sits in its own try/catch (the camera
\* frame loop); without it the first throwing send ends the loop.
RECURSIVE ForEachClient(_, _, _)
ForEachClient(clients, message, perClientCatch) ==
    IF clients = <<>> THEN [out |-> <<>>, threw |-> FALSE]
    ELSE LET client == Head(clients)
             rest == ForEachClient(Tail(clients), message, perClientCatch)
         IN  IF readyState[client] # "OPEN" THEN rest
             ELSE IF client \in throwing
                  THEN IF perClientCatch THEN rest
                       ELSE [out |-> <<>>, threw |-> TRUE]
             ELSE [out |-> <<[to |-> client, env |-> message]>> \o rest.out,
                   threw |-> rest.threw]

\* The four loops of the device side.
NotifyConnected(rpiId) ==
    ForEachClient(uiClients,
        JSONstringify([type |-> Str("rpi_connected"), rpiId |-> Str(rpiId)]), FALSE)
ForwardFrameUncaught(rpiId, frame) ==
    ForEachClient(uiClients,
        JSONstringify([type |-> Str("camera_frame"), rpiId |-> Str(rpiId),
                       frame |-> frame]), FALSE)
ForwardFrameEchoing(rpiId, frame) ==
    ForEachClient(uiClients \o (IF MapHas(rpiConnections, rpiId)
                                THEN <<MapGet(rpiConnections, rpiId)>> ELSE <<>>),
        JSONstringify([type |-> Str("camera_frame"), rpiId |-> Str(rpiId),
                       frame |-> frame]), TRUE)
ForwardFrame(rpiId, frame) ==
    ForEachClient(uiClients,
        JSONstringify([type |-> Str("camera_frame"), rpiId |-> Str(rpiId),
                       frame |-> frame]), TRUE)
ForwardResponseBare(rpiId, response) ==
    ForEachClient(uiClients,
        JSONstringify([type |-> Str("rpi_response"), rpiId |-> Str(rpiId)]), FALSE)
ForwardResponse(rpiId, response) ==
    ForEachClient(uiClients,
        JSONstringify([type |-> Str("rpi_response"), rpiId |-> Str(rpiId),
                       status |-> Field(response, "status"),
                       message |-> Field(response, "message")]), FALSE)
NotifyDisconnectedNeedingViewers(rpiId) ==
    IF uiClients = <<>> THEN [out |-> <<>>, threw |-> TRUE]
    ELSE ForEachClient(uiClients,
            JSONstringify([type |-> Str("rpi_disconnected"), rpiId |-> Str(rpiId)]), FALSE)
NotifyDisconnected(rpiId) ==
    ForEachClient(uiClients,
        JSONstringify([type |-> Str("rpi_disconnected"), rpiId |-> Str(rpiId)]), FALSE)

\* ------------------------------------------------------------ connections
\* The next handle to give out; None when the run's connections are used up.
NextHandle ==
    IF \E h \in Handles : readyState[h] = "NONE"
    THEN CHOOSE h \in Handles :
            readyState[h] = "NONE" /\ \A g \in Handles : readyState[g] = "NONE" => h <= g
    ELSE None

RemoveNothing(seq, x) == seq
Remove(seq, x) == SelectSeq(seq, LAMBDA y : y # x)

\* wssRPi.on("connection"): store the connection, tell the viewers, attach
\* the handlers.  A throw from the loop leaves the handler uncaught.
RPiConnectionFlushing(ws, rpiId) ==
    LET loop == NotifyConnected(rpiId)
    IN  /\ kind' = [kind EXCEPT ![ws] = "rpi"]
        /\ readyState' = [readyState EXCEPT ![ws] = "OPEN"]
        /\ wsRpiId' = [wsRpiId EXCEPT ![ws] = Str(rpiId)]
        /\ rpiConnections' = MapSet(rpiConnections, rpiId, ws)
        /\ sent' = loop.out \o
                   <<[to |-> ws, env |-> [type |-> Str("command"), command |-> Str("move"),
                                           direction |-> Str("up"), timestamp |-> Str("<now>")]]>>
        /\ crashed' = loop.threw
        /\ UNCHANGED <<clientStationId, clientRpiId, uiConnections, uiClients, throwing>>
RPiConnectionIntoViewerSet(ws, rpiId) ==
    LET loop == NotifyConnected(rpiId)
    IN  /\ kind' = [kind EXCEPT ![ws] = "rpi"]
        /\ readyState' = [readyState EXCEPT ![ws] = "OPEN"]
        /\ wsRpiId' = [wsRpiId EXCEPT ![ws] = Str(rpiId)]
        /\ rpiConnections' = MapSet(rpiConnections, rpiId, ws)
        /\ uiClients' = Append(uiClients, ws)
        /\ sent' = loop.out
        /\ crashed' = loop.threw
        /\ UNCHANGED <<clientStationId, clientRpiId, uiConnections, throwing>>
RPiConnection(ws, rpiId) ==
    LET loop == NotifyConnected(rpiId)
    IN  /\ kind' = [kind EXCEPT ![ws] = "rpi"]
        /\ readyState' = [readyState EXCEPT ![ws] = "OPEN"]
        /\ wsRpiId' = [wsRpiId EXCEPT ![ws] = Str(rpiId)]
        /\ rpiConnections' = MapSet(rpiConnections, rpiId, ws)
        /\ sent' = loop.out
        /\ crashed' = loop.threw
        /\ UNCHANGED <<clientStationId, clientRpiId, uiConnections, uiClients, throwing>>

\* wssUI.on("connection"): the server adds the socket to wssUI.clients; the
\* handler sets clientStationId and clientRpiId to null and sends nothing.
UIConnection(ws) ==
    /\ kind' = [kind EXCEPT ![ws] = "ui"]
    /\ readyState' = [readyState EXCEPT ![ws] = "OPEN"]
    /\ uiClients' = Append(uiClients, ws)
    /\ clientStationId' = [clientStationId EXCEPT ![ws] = Null]
    /\ clientRpiId' = [clientRpiId EXCEPT ![ws] = Null]
    /\ sent' = <<>>
    /\ UNCHANGED <<wsRpiId, rpiConnections, uiConnections, throwing, crashed>>

\* httpServer.on('upgrade'): route by path.  status is what the peer is
\* answered: 101 when the handshake completes, 400 or 404 when it is refused.
UpgradeStatusAnyDevicePath(pathname) ==
    IF Len(pathname) >= 3 /\ pathname[1] = "" /\ pathname[2] = "rpi" THEN 101
    ELSE IF pathname = <<"", "appws">> THEN 101
    ELSE 404
UpgradeStatus(pathname) ==
    IF Len(pathname) >= 3 /\ pathname[1] = "" /\ pathname[2] = "rpi"
    THEN IF pathname[3] = "" THEN 400 ELSE 101
    ELSE IF pathname = <<"", "appws">> THEN 101
    ELSE 404

Upgrade(pathname) ==
    LET status == UpgradeStatus(pathname)
        ws == NextHandle
    IN  /\ ~crashed
        /\ status = 101 => ws # None
        /\ IF status # 101
           THEN /\ sent' = <<>>
                /\ UNCHANGED <<conn, rpiConnections, uiConnections, uiClients,
                               throwing, crashed>>
           ELSE IF pathname[2] = "rpi"
                THEN RPiConnection(ws, pathname[3])
                ELSE UIConnection(ws)
        /\ UNCHANGED hookVars
        /\ last' = Ran("upgrade", IF status = 101 THEN ws ELSE None,
                        [pathname |-> pathname, status |-> status])

\* The peer or the network starts closing an open connection: readyState
\* leaves OPEN before the close event is delivered.
BeginClose(ws) ==
    /\ ~crashed
    /\ readyState[ws] = "OPEN"
    /\ readyState' = [readyState EXCEPT ![ws] = "CLOSING"]
    /\ sent' = <<>>
    /\ UNCHANGED hookVars
    /\ last' = Ran("beginClose", ws, Undefined)
    /\ UNCHANGED <<kind, wsRpiId, clientStationId, clientRpiId, rpiConnections,
                   uiConnections, uiClients, throwing, crashed>>

\* --------------------------------------------------------- device handlers
\* ws.on("message") of a device connection.  Every path is inside the outer
\* try/catch: a parse failure, a frame that is dropped and a throw out of the
\* rpi_response loop all end the handler quietly.
RPiMessageSendsReportingBadFrames(rpiId, data) ==
    IF ~data.json THEN ForwardResponse(rpiId, [status |-> Str("error")]).out
    ELSE LET response == data.obj
         IN  IF Field(response, "type") = Str("camera_frame")
             THEN IF ~Truthy(Field(response, "frame")) THEN <<>>
                  ELSE LET frame == frameToSend(Field(response, "frame"))
                       IN  IF frame = Undefined THEN <<>>
                           ELSE ForwardFrame(rpiId, frame).out
             ELSE ForwardResponse(rpiId, response).out
RPiMessageSends(rpiId, data) ==
    IF ~data.json THEN <<>>
    ELSE LET response == data.obj
         IN  IF Field(response, "type") = Str("camera_frame")
             THEN IF ~Truthy(Field(response, "frame")) THEN <<>>
                  ELSE LET frame == frameToSend(Field(response, "frame"))
                       IN  IF frame = Undefined THEN <<>>
                           ELSE ForwardFrame(rpiId, frame).out
             ELSE ForwardResponse(rpiId, response).out

RPiMessage(ws, data) ==
    /\ ~crashed
    /\ kind[ws] = "rpi"
    /\ readyState[ws] = "OPEN"
    /\ sent' = RPiMessageSends(String(wsRpiId[ws]), data)
    /\ UNCHANGED hookVars
    /\ last' = Ran("rpiMessage", ws, data)
    /\ UNCHANGED <<conn, rpiConnections, uiConnections, uiClients, throwing, crashed>>

\* ws.on("close") of a device connection, line 192: the entry of the
\* connection's rpiId is deleted whatever connection it holds.
RegistryAfterCloseKept(ws, rpiId) == rpiConnections
RegistryAfterCloseIfOwn(ws, rpiId) ==
    IF <<rpiId, ws>> \in rpiConnections THEN MapDelete(rpiConnections, rpiId)
    ELSE rpiConnections
RegistryAfterClose(ws, rpiId) == MapDelete(rpiConnections, rpiId)

RPiCloseStayingOpen(ws) ==
    LET rpiId == String(wsRpiId[ws])
        loop == NotifyDisconnected(rpiId)
    IN  /\ ~crashed
        /\ kind[ws] = "rpi"
        /\ readyState[ws] \in {"OPEN", "CLOSING"}
        /\ rpiConnections' = RegistryAfterClose(ws, rpiId)
        /\ sent' = loop.out
        /\ crashed' = loop.threw
        /\ throwing' = throwing \ {ws}
        /\ UNCHANGED hookVars
        /\ last' = Ran("rpiClose", ws, Undefined)
        /\ UNCHANGED <<kind, readyState, wsRpiId, clientStationId, clientRpiId,
                       uiConnections, uiClients>>
RPiClose(ws) ==
    LET rpiId == String(wsRpiId[ws])
        loop == NotifyDisconnected(rpiId)
    IN  /\ ~crashed
        /\ kind[ws] = "rpi"
        /\ readyState[ws] \in {"OPEN", "CLOSING"}
        /\ readyState' = [readyState EXCEPT ![ws] = "CLOSED"]
        /\ rpiConnections' = RegistryAfterClose(ws, rpiId)
        /\ sent' = loop.out
        /\ crashed' = loop.threw
        /\ throwing' = throwing \ {ws}
        /\ UNCHANGED hookVars
        /\ last' = Ran("rpiClose", ws, Undefined)
        /\ UNCHANGED <<kind, wsRpiId, clientStationId, clientRpiId, uiConnections,
                       uiClients>>

\* --------------------------------------------------------- viewer handlers
\* WebSocket.readyState as a number.
ReadyStateNumber(rs) ==
    CASE rs = "OPEN" -> 1 [] rs = "CLOSING" -> 2 [] OTHER -> 3

\* { ...a, ...b }: the fields of b override those of a.
Spread(a, b) == [f \in DOMAIN a \cup DOMAIN b |-> IF f \in DOMAIN b THEN b[f] ELSE a[f]]

\* A template literal: its pieces in order.
Template(parts) == [t |-> "string", parts |-> parts]

\* x || fallback
OrElse(x, fallback) == IF Truthy(x) THEN x ELSE fallback

\* `ui_${clientStationId}_${clientRpiId}`
clientKeyStationOnly(stationId, rpiId) == <<"ui_", String(stationId)>>
clientKey(stationId, rpiId) == <<"ui_", String(stationId), "_", String(rpiId)>>

\* message.stationId?.toString()
OptionalToString(x) ==
    IF x = Undefined \/ x = Null THEN Undefined ELSE Str(String(x))

\* Lines 263-268.
commandMessageRepeating(message) ==
    [type |-> Str("command"),
     command |-> Str("move"),
     direction |-> OrElse(Field(message, "direction"), Str("none")),
     timestamp |-> Str("<now>")]
commandMessageSwapped(message) ==
    [type |-> Str("command"),
     command |-> OrElse(Field(message, "direction"), Str("unknown")),
     direction |-> OrElse(Field(message, "command"), Str("none")),
     timestamp |-> Str("<now>")]
commandMessage(message) ==
    [type |-> Str("command"),
     command |-> OrElse(Field(message, "command"), Str("unknown")),
     direction |-> OrElse(Field(message, "direction"), Str("none")),
     timestamp |-> Str("<now>")]

\* Lines 274-278: { type: "command_sent", message: ..., ...commandMessage }.
commandSent(message) ==
    Spread([type |-> Str("command_sent"),
            message |-> Template(<<"Command sent to RPi ", String(Field(message, "rpiId"))>>)],
           commandMessage(message))

\* Line 249: the command is routed when the registry holds an open connection.
RoutableIfRegistered(rpiWs) == rpiWs # None
Routable(rpiWs) == rpiWs # None /\ readyState[rpiWs] = "OPEN"

\* Lines 251-258.
notConnected(message, rpiWs) ==
    [type |-> Str("error"),
     message |-> Template(<<"RPi ", String(Field(message, "rpiId")), " not connected">>),
     details |-> JSONstringify(
        [connected |-> [t |-> "boolean", v |-> rpiWs # None],
         readyState |-> IF rpiWs = None THEN Undefined
                        ELSE Num(ReadyStateNumber(readyState[rpiWs]))])]

\* ws.send(JSON.stringify(envelope)) on the viewer's own connection.
ReplyToEveryViewer(ws, envelope) ==
    ForEachClient(uiClients, JSONstringify(envelope), FALSE).out
ReplyTo(ws, envelope) == <<[to |-> ws, env |-> JSONstringify(envelope)]>>

\* Lines 229-232.
registered(stationId) ==
    [type |-> Str("registered"),
     message |-> Template(<<"Successfully registered for station ", String(stationId)>>)]

\* Lines 240-243.
rpiIdRequiredAsResponse == [type |-> Str("rpi_response"), message |-> Str("RPi ID is required")]
rpiIdRequired == [type |-> Str("error"), message |-> Str("RPi ID is required")]

\* The try block of ws.on("message") of a viewer: the sends it attempts, in
\* order, and the registration it records before them.
UITryRegisteredOnly(ws, data) ==
    IF ~data.json THEN [attempts |-> <<>>, parsed |-> FALSE, register |-> FALSE]
    ELSE LET message == data.obj
             rpiWs == MapGet(rpiConnections, String(Field(message, "rpiId")))
         IN  IF Field(message, "type") = Str("register")
             THEN [attempts |->
                     IF Truthy(OptionalToString(Field(message, "stationId")))
                        /\ Truthy(Field(message, "rpiId"))
                     THEN ReplyTo(ws, registered(OptionalToString(Field(message, "stationId"))))
                     ELSE <<>>,
                   parsed |-> TRUE, register |-> TRUE]
             ELSE [attempts |->
                     IF ~Truthy(Field(message, "rpiId"))
                     THEN ReplyTo(ws, rpiIdRequired)
                     ELSE IF ~Routable(rpiWs) \/ clientRpiId[ws] # Field(message, "rpiId")
                     THEN ReplyTo(ws, notConnected(message, rpiWs))
                     ELSE <<[to |-> rpiWs, env |-> JSONstringify(commandMessage(message))]>>
                          \o ReplyTo(ws, commandSent(message)),
                   parsed |-> TRUE, register |-> FALSE]
UITry(ws, data) ==
    IF ~data.json THEN [attempts |-> <<>>, parsed |-> FALSE, register |-> FALSE]
    ELSE LET message == data.obj
             rpiWs == MapGet(rpiConnections, String(Field(message, "rpiId")))
         IN  IF Field(message, "type") = Str("register")
             THEN [attempts |->
                     IF Truthy(OptionalToString(Field(message, "stationId")))
                        /\ Truthy(Field(message, "rpiId"))
                     THEN ReplyTo(ws, registered(OptionalToString(Field(message, "stationId"))))
                     ELSE <<>>,
                   parsed |-> TRUE, register |-> TRUE]
             ELSE [attempts |->
                     IF ~Truthy(Field(message, "rpiId"))
                     THEN ReplyTo(ws, rpiIdRequired)
                     ELSE IF ~Routable(rpiWs)
                     THEN ReplyTo(ws, notConnected(message, rpiWs))
                     ELSE <<[to |-> rpiWs, env |-> JSONstringify(commandMessage(message))]>>
                          \o ReplyTo(ws, commandSent(message)),
                   parsed |-> TRUE, register |-> FALSE]

\* The sends of a sequence that happen before the first one that throws
\* (UntilThrow); UntilThrowSkipping would carry on after a throw.
RECURSIVE UntilThrowSkipping(_)
UntilThrowSkipping(attempts) ==
    IF attempts = <<>> THEN [out |-> <<>>, threw |-> FALSE]
    ELSE LET rest == UntilThrowSkipping(Tail(attempts))
         IN  IF Head(attempts).to \in throwing THEN rest
             ELSE [out |-> <<Head(attempts)>> \o rest.out, threw |-> rest.threw]
RECURSIVE UntilThrow(_)
UntilThrow(attempts) ==
    IF attempts = <<>> THEN [out |-> <<>>, threw |-> FALSE]
    ELSE IF Head(attempts).to \in throwing THEN [out |-> <<>>, threw |-> TRUE]
    ELSE LET rest == UntilThrow(Tail(attempts))
         IN  [out |-> <<Head(attempts)>> \o rest.out, threw |-> rest.threw]

invalidFormat == JSONstringify([type |-> Str("error"), message |-> Str("Invalid message format")])

\* ws.on("message") of a viewer.  The catch block answers "Invalid message
\* format" for a parse failure and for a throwing send alike; a throw of that
\* answer itself rejects the async handler's promise with nobody to catch it.
UIMessageUncaught(ws, data) ==
    LET try == UITry(ws, data)
        done == UntilThrow(try.attempts)
        caught == ~try.parsed \/ done.threw
        message == data.obj
    IN  /\ ~crashed
        /\ kind[ws] = "ui"
        /\ readyState[ws] = "OPEN"
        /\ IF try.register
           THEN /\ clientStationId' = [clientStationId EXCEPT
                        ![ws] = OptionalToString(Field(message, "stationId"))]
                /\ clientRpiId' = [clientRpiId EXCEPT ![ws] = Field(message, "rpiId")]
                /\ uiConnections' =
                     IF try.attempts # <<>>
                     THEN MapSet(uiConnections,
                                 clientKey(OptionalToString(Field(message, "stationId")),
                                           Field(message, "rpiId")), ws)
                     ELSE uiConnections
           ELSE UNCHANGED <<clientStationId, clientRpiId, uiConnections>>
        /\ sent' = IF ~try.parsed /\ ws \notin throwing
                   THEN done.out \o <<[to |-> ws, env |-> invalidFormat]>>
                   ELSE done.out
        /\ crashed' = (done.threw \/ (~try.parsed /\ ws \in throwing))
        /\ UNCHANGED hookVars
        /\ last' = Ran("uiMessage", ws, data)
        /\ UNCHANGED <<kind, readyState, wsRpiId, rpiConnections, uiClients, throwing>>
UIMessage(ws, data) ==
    LET try == UITry(ws, data)
        done == UntilThrow(try.attempts)
        caught == ~try.parsed \/ done.threw
        message == data.obj
    IN  /\ ~crashed
        /\ kind[ws] = "ui"
        /\ readyState[ws] = "OPEN"
        /\ IF try.register
           THEN /\ clientStationId' = [clientStationId EXCEPT
                        ![ws] = OptionalToString(Field(message, "stationId"))]
                /\ clientRpiId' = [clientRpiId EXCEPT ![ws] = Field(message, "rpiId")]
                /\ uiConnections' =
                     IF try.attempts # <<>>
                     THEN MapSet(uiConnections,
                                 clientKey(OptionalToString(Field(message, "stationId")),
                                           Field(message, "rpiId")), ws)
                     ELSE uiConnections
           ELSE UNCHANGED <<clientStationId, clientRpiId, uiConnections>>
        /\ sent' = IF caught /\ ws \notin throwing
                   THEN done.out \o <<[to |-> ws, env |-> invalidFormat]>>
                   ELSE done.out
        /\ crashed' = (caught /\ ws \in throwing)
        /\ UNCHANGED hookVars
        /\ last' = Ran("uiMessage", ws, data)
        /\ UNCHANGED <<kind, readyState, wsRpiId, rpiConnections, uiClients, throwing>>

\* ws.on("close") of a viewer; the server takes the socket out of
\* wssUI.clients.
UIClose(ws) ==
    /\ ~crashed
    /\ kind[ws] = "ui"
    /\ readyState[ws] \in {"OPEN", "CLOSING"}
    /\ readyState' = [readyState EXCEPT ![ws] = "CLOSED"]
    /\ uiClients' = Remove(uiClients, ws)
    /\ uiConnections' =
         IF Truthy(clientStationId[ws]) /\ Truthy(clientRpiId[ws])
         THEN MapDelete(uiConnections, clientKey(clientStationId[ws], clientRpiId[ws]))
         ELSE uiConnections
    /\ throwing' = throwing \ {ws}
    /\ sent' = <<>>
    /\ UNCHANGED hookVars
    /\ last' = Ran("uiClose", ws, Undefined)
    /\ UNCHANGED <<kind, wsRpiId, clientStationId, clientRpiId, rpiConnections, crashed>>

\* A fault: from now on send() on this open connection throws.
BreakSend(ws) ==
    /\ ~crashed
    /\ readyState[ws] = "OPEN"
    /\ ws \notin throwing
    /\ throwing' = throwing \cup {ws}
    /\ sent' = <<>>
    /\ UNCHANGED hookVars
    /\ last' = Ran("breakSend", ws, Undefined)
    /\ UNCHANGED <<conn, rpiConnections, uiConnections, uiClients, crashed>>

\* Frames of every kind a device sends: a status, a register frame, a type
\* the relay does not know, a camera frame.
DeviceRegister ==
    Parsed([type |-> Str("register"), status |-> Str("ready"), message |-> Str("hello")])
RpiDispatchData == {StatusFrame, DeviceRegister, Parsed([type |-> Str("telemetry")]),
                    CameraFrame(Chars(B64Abc))}
UiDispatchData == {Command(Str("rpi1"), Str("move"), Str("up"))}

\* Register frames of viewers, complete and not, and commands.
RpiRegisterData == {StatusFrame}
UiRegisterData == {Register(Num(1), Str("rpi1")), Register(Undefined, Str("rpi1")),
                   Register(Num(1), Undefined),
                   Command(Str("rpi1"), Str("move"), Str("up")),
                   Command(Str("rpi2"), Str("move"), Str("up"))}

\* ------------------------------------------------------ the hook's callbacks
\* The browser runs every callback of the hook to completion, so each is one
\* atomic action.  A timer is named after the socket whose close armed it.
Created == {s \in SocketIds : webSockets[s].readyState # "NONE"}
Pending(fn, s) == {t \in timers : t.fn = fn /\ t.of = s}

HookRan(op, s, data, transmitted, heard) ==
    [op |-> op, socket |-> s, data |-> data, transmitted |-> transmitted,
     heard |-> heard]

\* socket.onopen, lines 36-39.
OnOpen(s) ==
    /\ webSockets[s].readyState = "CONNECTING"
    /\ webSockets' = [webSockets EXCEPT ![s].readyState = "OPEN"]
    /\ state' = IF "onopen" \in webSockets[s].handlers
                THEN [state EXCEPT !.connectionStatus = TRUE] ELSE state
    /\ hookLast' = HookRan("onopen", s, Undefined, <<>>, hookLast.heard)
    /\ UNCHANGED <<mounted, wsRef, reconnectTimeoutRef, frameTimeoutRef, timers>>
    /\ UNCHANGED relayVars

\* Line 58: Math.min(1000 * Math.pow(2, Math.floor(Math.random() * 4)), 10000);
\* k is Math.floor(Math.random() * 4).
RandomFloors == 0..3
backoffTimeUncapped(k) == 1000 * 2^(k + 1)
backoffTime(k) == LET t == 1000 * 2^k IN IF t < 10000 THEN t ELSE 10000

\* Line 49: the delay of reconnectStatusTimeout.
StatusDelay == 2000

\* socket.onclose, lines 41-80: the socket is closed; the handler arms the
\* status timer and the reconnect timer.  The guard keeps a socket free for
\* every reconnect timer that is armed.
OnClose(s, k) ==
    /\ webSockets[s].readyState \in {"CONNECTING", "OPEN", "CLOSING"}
    /\ Cardinality(Created) + Cardinality({t \in timers : t.fn = "reconnect"})
         < MaxSockets
    /\ webSockets' = [webSockets EXCEPT ![s].readyState = "CLOSED"]
    /\ IF "onclose" \in webSockets[s].handlers
       THEN /\ state' = [state EXCEPT !.connectionStatus = FALSE]
            /\ timers' = timers \cup
                 {[fn |-> "status", of |-> s, delay |-> StatusDelay],
                  [fn |-> "reconnect", of |-> s, delay |-> backoffTime(k)]}
            /\ reconnectTimeoutRef' = s
       ELSE UNCHANGED <<state, timers, reconnectTimeoutRef>>
    /\ hookLast' = HookRan("onclose", s, Undefined, <<>>, hookLast.heard)
    /\ UNCHANGED <<mounted, wsRef, frameTimeoutRef>>
    /\ UNCHANGED relayVars

\* socket.onerror, lines 82-85.
OnError(s) ==
    /\ webSockets[s].readyState \in {"CONNECTING", "OPEN"}
    /\ "onerror" \in webSockets[s].handlers
    /\ state' = [state EXCEPT !.connectionStatus = FALSE]
    /\ hookLast' = HookRan("onerror", s, Undefined, <<>>, hookLast.heard)
    /\ UNCHANGED <<mounted, webSockets, wsRef, reconnectTimeoutRef, frameTimeoutRef,
                   timers>>
    /\ UNCHANGED relayVars

\* The callback of reconnectStatusTimeout, lines 49-56.  Of the two timers
\* armed by one close the one with the shorter delay runs first, and the
\* status timer, armed first, runs first when the delays are equal.
ReconnectStatusTimeout(s) ==
    /\ Pending("status", s) # {}
    /\ \A t \in Pending("reconnect", s) : t.delay >= StatusDelay
    /\ timers' = timers \ Pending("status", s)
    /\ state' = IF wsRef = None \/ webSockets[wsRef].readyState # "OPEN"
                THEN [state EXCEPT !.connectionStatus = FALSE, !.frame = Null]
                ELSE state
    /\ hookLast' = HookRan("reconnectStatusTimeout", s, Undefined, <<>>, hookLast.heard)
    /\ UNCHANGED <<mounted, webSockets, wsRef, reconnectTimeoutRef, frameTimeoutRef>>
    /\ UNCHANGED relayVars

\* Lines 67-70: the new socket is given the handlers of `socket`, the socket
\* the effect created.
CopiedHandlers == webSockets[1].handlers

\* The callback of the reconnect timer, lines 62-79: a new socket becomes the
\* current one and the status timer of the same close is cleared.
ReconnectTimeout(s) ==
    /\ Pending("reconnect", s) # {}
    /\ \A t \in Pending("reconnect", s) :
          t.delay < StatusDelay \/ Pending("status", s) = {}
    /\ SocketIds \ Created # {}
    /\ LET newSocket == CHOOSE n \in SocketIds \ Created :
                            \A o \in SocketIds \ Created : n <= o
       IN  /\ webSockets' = [webSockets EXCEPT
                                ![newSocket] = NewWebSocket(CopiedHandlers, s)]
           /\ wsRef' = newSocket
    /\ timers' = timers \ (Pending("reconnect", s) \cup Pending("status", s))
    /\ hookLast' = HookRan("reconnectTimeout", s, Undefined, <<>>, hookLast.heard)
    /\ UNCHANGED <<mounted, reconnectTimeoutRef, frameTimeoutRef, state>>
    /\ UNCHANGED relayVars

\* { ...obj, [key]: value }
ObjectOnly(obj, key, value) == {<<key, value>>}
ObjectWith(obj, key, value) == {e \in obj : e[1] # key} \cup {<<key, value>>}

\* handleMessage, lines 108-170, on a message event of an open socket.
HandleMessage(s, data) ==
    LET type == Field(data.obj, "type")
        key == String(Field(data.obj, "rpiId"))
    IN  /\ webSockets[s].readyState = "OPEN"
        /\ "onmessage" \in webSockets[s].handlers
        /\ IF ~data.json
           THEN UNCHANGED <<state, frameTimeoutRef>>
           ELSE CASE type = Str("camera_frame") ->
                       /\ frameTimeoutRef' = "pending"
                       /\ state' = [state EXCEPT !.frame = Field(data.obj, "frame"),
                                                 !.lastFrameTime = Str("<now>")]
                  [] type = Str("rpi_connected") ->
                       /\ state' = [state EXCEPT
                                       !.rpiStatus = ObjectWith(@, key, TRUE)]
                       /\ UNCHANGED frameTimeoutRef
                  [] type = Str("rpi_disconnected") ->
                       /\ state' = [state EXCEPT
                                       !.rpiStatus = ObjectWith(@, key, FALSE),
                                       !.frame = Null]
                       /\ UNCHANGED frameTimeoutRef
                  [] OTHER ->
                       /\ state' = [state EXCEPT !.lastResponse = data.obj]
                       /\ UNCHANGED frameTimeoutRef
        /\ hookLast' = HookRan("handleMessage", s, data, <<>>,
              IF data.json /\ type \in {Str(t) : t \in LifecycleTypes}
                           /\ key \in DOMAIN hookLast.heard
              THEN [hookLast.heard EXCEPT ![key] = type.v]
              ELSE hookLast.heard)
        /\ UNCHANGED <<mounted, webSockets, wsRef, reconnectTimeoutRef, timers>>
        /\ UNCHANGED relayVars

\* The callback of the frame timer, lines 117-119.
FrameTimeout ==
    /\ frameTimeoutRef = "pending"
    /\ frameTimeoutRef' = "fired"
    /\ state' = [state EXCEPT !.frame = Null]
    /\ hookLast' = HookRan("frameTimeout", None, Undefined, <<>>, hookLast.heard)
    /\ UNCHANGED <<mounted, webSockets, wsRef, reconnectTimeoutRef, timers>>
    /\ UNCHANGED relayVars

\* Lines 180-183: { ...message, rpiId: String(message.rpiId) }.
finalMessageAsGiven(message) == message
finalMessage(message) == Spread(message, [rpiId |-> Str(String(message.rpiId))])

\* sendMessage, lines 172-196.
SendMessage(message) ==
    /\ hookLast' = HookRan("sendMessage", wsRef, message,
          IF ~Truthy(Field(message, "rpiId")) THEN <<>>
          ELSE IF wsRef # None /\ webSockets[wsRef].readyState = "OPEN"
          THEN <<[socket |-> wsRef, frame |-> JSONstringify(finalMessage(message))]>>
          ELSE <<>>,
          hookLast.heard)
    /\ UNCHANGED <<mounted, webSockets, wsRef, reconnectTimeoutRef, frameTimeoutRef,
                   timers, state>>
    /\ UNCHANGED relayVars

\* The effect's cleanup, lines 90-105.
Cleanup ==
    /\ mounted
    /\ mounted' = FALSE
    /\ webSockets' = IF wsRef # None
                        /\ webSockets[wsRef].readyState \in {"CONNECTING", "OPEN"}
                     THEN [webSockets EXCEPT ![wsRef].readyState = "CLOSING"]
                     ELSE webSockets
    /\ wsRef' = None
    /\ timers' = IF reconnectTimeoutRef # None
                 THEN timers \ Pending("reconnect", reconnectTimeoutRef)
                 ELSE timers
    /\ reconnectTimeoutRef' = None
    /\ frameTimeoutRef' = "null"
    /\ hookLast' = HookRan("cleanup", None, Undefined, <<>>, hookLast.heard)
    /\ UNCHANGED state
    /\ UNCHANGED relayVars

\* What the relay sends a viewer, and text that is not JSON.
Lifecycle(type, rpiId) ==
    Parsed([type |-> Str(type), rpiId |-> Str(rpiId), status |-> Str("x")])
HookEnvelopes ==
    {Unparseable, Parsed([type |-> Str("rpi_response"), rpiId |-> Str("rpi1")]),
     Parsed([type |-> Str("camera_frame"), rpiId |-> Str("rpi1"),
             frame |-> Str("<frame>")])}
    \cup {Lifecycle(t, d) : t \in LifecycleTypes, d \in RpiIds}

\* What the page passes to sendMessage.
HookMessages ==
    {[type |-> Str("command"), rpiId |-> Str("rpi1"), command |-> Str("move")],
     [type |-> Str("command"), rpiId |-> Num(1), command |-> Str("move")],
     [type |-> Str("command"), rpiId |-> Num(0), command |-> Str("move")],
     [type |-> Str("command"), command |-> Str("move")]}

\* ---------------------------------------------------------- specifications
Step(rpiData, uiData) ==
    \/ \E pathname \in Pathnames : Upgrade(pathname)
    \/ \E ws \in Handles : BeginClose(ws)
    \/ \E ws \in Handles, data \in rpiData : RPiMessage(ws, data)
    \/ \E ws \in Handles : RPiClose(ws)
    \/ \E ws \in Handles, data \in uiData : UIMessage(ws, data)
    \/ \E ws \in Handles : UIClose(ws)

\* The relay with every send succeeding on an open connection.
Next == Step(RpiData, UiData)
Spec == Init /\ [][Next]_vars

\* The same relay, fed every camera frame payload of the model.
NextFrames == Step(RpiFrameData, UiFrameData)
SpecFrames == Init /\ [][NextFrames]_vars

\* The relay with sends that may throw.
NextFault ==
    \/ Step(RpiFaultData, UiFaultData)
    \/ \E ws \in Handles : BreakSend(ws)
SpecFault == Init /\ [][NextFault]_vars

\* The relay asked to upgrade on every request path of the model.
NextPaths ==
    \/ \E pathname \in OtherPathnames : Upgrade(pathname)
    \/ Step({StatusFrame}, {Command(Str("rpi1"), Str("move"), Str("up"))})
SpecPaths == Init /\ [][NextPaths]_vars

\* The relay with viewers that register.
NextRegister == Step(RpiRegisterData, UiRegisterData)
SpecRegister == Init /\ [][NextRegister]_vars

\* The relay with devices that send every kind of frame.
NextDispatch == Step(RpiDispatchData, UiDispatchData)
SpecDispatch == Init /\ [][NextDispatch]_vars

\* Frames for following one connection from frame to frame.
StopCommand == Command(Str("rpi1"), Str("stop"), Undefined)
DoneFrame == Parsed([type |-> Str("status"), status |-> Str("ok"), message |-> Str("stopped")])
RpiHistoryData == {Unparseable, StatusFrame, DoneFrame}
UiHistoryData == {Command(Str("rpi1"), Str("move"), Str("up")), StopCommand,
                  Command(Str("rpi2"), Str("move"), Str("up"))}

\* The relay, each handler run recorded together with the run before it.
InitHistory == Start(TRUE, NoSeen)
NextHistory == Step(RpiHistoryData, UiHistoryData)
SpecHistory == InitHistory /\ [][NextHistory]_vars

\* The same handlers, started with the lifecycle history of last.seen.
InitWatch == Start(FALSE, SeenNothing)
NextWatch == Step({StatusFrame}, {Command(Str("rpi1"), Str("move"), Str("up"))})
SpecWatch == InitWatch /\ [][NextWatch]_vars

\* The hook alone: its sockets, timers and callbacks, and the page's calls.
SocketStep ==
    \/ \E s \in SocketIds : OnOpen(s)
    \/ \E s \in SocketIds, k \in RandomFloors : OnClose(s, k)
    \/ \E s \in SocketIds : OnError(s)
    \/ \E s \in SocketIds : ReconnectStatusTimeout(s)
    \/ \E s \in SocketIds : ReconnectTimeout(s)
    \/ Cleanup
NextHook ==
    \/ SocketStep
    \/ \E s \in SocketIds, data \in HookEnvelopes : HandleMessage(s, data)
    \/ FrameTimeout
    \/ \E message \in HookMessages : SendMessage(message)
SpecHook == Init /\ [][NextHook]_vars

\* The sockets and timers of the hook; a timer that stays armed runs.
NextReconnect == SocketStep
SpecReconnect ==
    /\ Init
    /\ [][NextReconnect]_vars
    /\ \A s \in SocketIds : /\ WF_vars(ReconnectStatusTimeout(s))
                             /\ WF_vars(ReconnectTimeout(s))

\* ============================================================== properties
Devices == {h \in Handles : kind[h] = "rpi"}
OpenViewers == {h \in Handles : kind[h] = "ui" /\ readyState[h] = "OPEN"}

\* The places of `sent` addressed to h, and "h was sent env, once, and nothing else".
SentTo(h) == {i \in DOMAIN sent : sent[i].to = h}
ReceivedOnce(h, env) ==
    Cardinality(SentTo(h)) = 1 /\ \A i \in SentTo(h) : sent[i].env = env
OnlyTo(receivers) == \A i \in DOMAIN sent : sent[i].to \in receivers

\* The last handler accepted a device (a viewer) connection.
AcceptedDevice == last.op = "upgrade" /\ last.conn # None /\ kind[last.conn] = "rpi"
AcceptedViewer == last.op = "upgrade" /\ last.conn # None /\ kind[last.conn] = "ui"

\* The last handler took a parsed frame from a device (a viewer).
DeviceFrame == last.op = "rpiMessage" /\ last.data.json
ViewerFrame == last.op = "uiMessage" /\ last.data.json

\* The connection of identifier d that registered last.
LatestFor(d) ==
    IF \E h \in Devices : wsRpiId[h] = Str(d)
    THEN CHOOSE h \in Devices :
            wsRpiId[h] = Str(d) /\ \A g \in Devices : wsRpiId[g] = Str(d) => g <= h
    ELSE None

\* ---------------------------------------------------------------------- C1
\* C1: a device close removes the registry entry of its identifier only when
\* the entry holds the closing connection; an entry that a newer connection
\* of the same identifier has taken over is left in place.
C1_CloseRemovesOnlyOwnEntry ==
    last.op = "rpiClose" =>
      LET rpiId == String(wsRpiId[last.conn])
      IN  MapGet(last.registry, rpiId) # last.conn
          => MapGet(rpiConnections, rpiId) = MapGet(last.registry, rpiId)

\* ---------------------------------------------------------------------- C2
\* C2: the registry never holds two entries for one identifier; right after a
\* device connection is accepted its identifier maps to that connection, also
\* when the identifier was registered before, and every open viewer was sent
\* exactly one rpi_connected envelope carrying the identifier.
C2_OneEntryPerIdentifier ==
    /\ \A e1, e2 \in rpiConnections : e1[1] = e2[1] => e1 = e2
    /\ AcceptedDevice =>
         LET rpiId == last.data.pathname[3]
         IN  /\ {e \in rpiConnections : e[1] = rpiId} = {<<rpiId, last.conn>>}
             /\ \A v \in OpenViewers :
                  ReceivedOnce(v, [type |-> Str("rpi_connected"), rpiId |-> Str(rpiId)])
             /\ OnlyTo(OpenViewers)

\* An identifier registers a second time while its first connection is still
\* open, with a viewer watching.
C2_Witness ==
    /\ AcceptedDevice
    /\ \E older \in Devices :
         /\ older < last.conn
         /\ wsRpiId[older] = wsRpiId[last.conn]
         /\ readyState[older] = "OPEN"
    /\ OpenViewers # {}
    /\ Len(sent) = Cardinality(OpenViewers)

\* ---------------------------------------------------------------------- C3
\* C3: a viewer's command for a registered, open device puts exactly two
\* envelopes on the wire: one command to the device's connection and one
\* command_sent to the viewer, both carrying the frame's command and direction.
C3_CommandRoundTrip ==
    ViewerFrame =>
      LET message == last.data.obj
          rpiWs == MapGet(rpiConnections, String(Field(message, "rpiId")))
          Carries(env, type) ==
              /\ Field(env, "type") = Str(type)
              /\ Field(env, "command") = Field(message, "command")
              /\ Field(env, "direction") = Field(message, "direction")
      IN  (/\ Field(message, "type") # Str("register")
           /\ Truthy(Field(message, "rpiId"))
           /\ Truthy(Field(message, "command"))
           /\ Truthy(Field(message, "direction"))
           /\ rpiWs # None
           /\ readyState[rpiWs] = "OPEN")
          => /\ Len(sent) = 2
             /\ Cardinality(SentTo(rpiWs)) = 1
             /\ \A i \in SentTo(rpiWs) : Carries(sent[i].env, "command")
             /\ Cardinality(SentTo(last.conn)) = 1
             /\ \A i \in SentTo(last.conn) : Carries(sent[i].env, "command_sent")

\* ---------------------------------------------------------------------- C4
\* C4: a command whose target identifier has no registry entry, or an entry
\* that is not open, is answered with exactly one error envelope naming the
\* identifier, sent to the viewer that asked; no device is sent anything and
\* the registry and the viewer set stay as they were.
C4_UnroutableCommand ==
    (/\ ViewerFrame
     /\ Field(last.data.obj, "type") # Str("register")
     /\ Truthy(Field(last.data.obj, "rpiId"))
     /\ LET rpiWs == MapGet(last.registry, String(Field(last.data.obj, "rpiId")))
        IN  rpiWs = None \/ readyState[rpiWs] # "OPEN")
    => /\ Len(sent) = 1
       /\ sent[1].to = last.conn
       /\ Field(sent[1].env, "type") = Str("error")
       /\ Field(sent[1].env, "message") =
            Template(<<"RPi ", String(Field(last.data.obj, "rpiId")), " not connected">>)
       /\ rpiConnections = last.registry
       /\ uiClients = last.clients

\* A command for an identifier whose registered connection is closing.
C4_Witness ==
    /\ ViewerFrame
    /\ Field(last.data.obj, "type") # Str("register")
    /\ Truthy(Field(last.data.obj, "rpiId"))
    /\ LET rpiWs == MapGet(last.registry, String(Field(last.data.obj, "rpiId")))
       IN  rpiWs # None /\ readyState[rpiWs] = "CLOSING"
    /\ Len(sent) = 1
    /\ Field(sent[1].env, "type") = Str("error")

\* ---------------------------------------------------------------------- C5
\* C5: whichever loop broadcasts (connected, disconnected, camera frame,
\* response), a send that fails for one viewer stays inside the loop: no
\* exception leaves the handler, every other open viewer is sent the envelope
\* once, and the device whose event it was stays open.
Broadcasting ==
    \/ AcceptedDevice
    \/ last.op = "rpiClose"
    \/ /\ DeviceFrame
       /\ \/ Field(last.data.obj, "type") # Str("camera_frame")
          \/ /\ Truthy(Field(last.data.obj, "frame"))
             /\ frameToSend(Field(last.data.obj, "frame")) # Undefined

C5_BroadcastSurvivesFailedSend ==
    Broadcasting =>
      /\ ~crashed
      /\ \A v \in OpenViewers \ throwing : Cardinality(SentTo(v)) = 1
      /\ last.op # "rpiClose" => readyState[last.conn] = "OPEN"

C7_DeviceListOnConnect ==
    (AcceptedViewer /\ MapHas(rpiConnections, "rpi1"))
    => \E i \in SentTo(last.conn) :
          /\ Field(sent[i].env, "type") \in {Str("device_list"), Str("rpi_list")}
          /\ \/ Field(sent[i].env, "ids") = [t |-> "array", v |-> MapKeys(rpiConnections)]
             \/ Field(sent[i].env, "rpiIds") = [t |-> "array", v |-> MapKeys(rpiConnections)]

\* ---------------------------------------------------------------------- C8
\* C8: right after a device closes, every open viewer was sent exactly one
\* rpi_disconnected envelope carrying its identifier and the identifier has no
\* registry entry; an identifier without an entry gets one only by an accepted
\* device connection for that identifier.
C8_DisconnectNotified ==
    /\ last.op = "rpiClose" =>
         LET rpiId == String(wsRpiId[last.conn])
         IN  /\ MapGet(rpiConnections, rpiId) = None
             /\ \A v \in OpenViewers :
                  ReceivedOnce(v, [type |-> Str("rpi_disconnected"), rpiId |-> Str(rpiId)])
             /\ OnlyTo(OpenViewers)
    /\ \A rpiId \in RpiIds :
         (MapGet(last.registry, rpiId) = None /\ MapGet(rpiConnections, rpiId) # None)
         => /\ last.op = "upgrade"
            /\ last.data = [pathname |-> <<"", "rpi", rpiId>>, status |-> 101]

\* The registered connection of an identifier closes with a viewer watching.
C8_Witness ==
    /\ last.op = "rpiClose"
    /\ LatestFor(String(wsRpiId[last.conn])) = last.conn
    /\ OpenViewers # {}
    /\ Len(sent) = Cardinality(OpenViewers)
    /\ ~MapHas(rpiConnections, String(wsRpiId[last.conn]))

\* ---------------------------------------------------------------------- C9
\* C9: a camera frame whose payload is non-empty valid base64 without the
\* "data:" scheme reaches every open viewer once as
\* "data:image/jpeg;base64," followed by the payload; a payload that starts
\* with "data:" reaches them unchanged; relaying a relayed payload again
\* changes nothing.
CameraEnvelope(rpiId, frame) ==
    [type |-> Str("camera_frame"), rpiId |-> rpiId, frame |-> frame]

C9_FrameNormalized ==
    /\ (/\ DeviceFrame
        /\ Field(last.data.obj, "type") = Str("camera_frame")
        /\ IsChars(Field(last.data.obj, "frame"))
        /\ Field(last.data.obj, "frame").cs # <<>>)
       => LET frame == Field(last.data.obj, "frame")
              expected ==
                  IF StartsWith(frame.cs, DataScheme) THEN frame
                  ELSE Chars(JpegPrefix \o frame.cs)
          IN  (StartsWith(frame.cs, DataScheme) \/ atobAccepts(frame.cs))
              => /\ \A v \in OpenViewers :
                      ReceivedOnce(v, CameraEnvelope(wsRpiId[last.conn], expected))
                 /\ OnlyTo(OpenViewers)
    /\ \A f \in FrameValues :
         frameToSend(f) # Undefined => frameToSend(frameToSend(f)) = frameToSend(f)

\* Two viewers are sent the prefixed form of a bare base64 payload.
C9_Witness ==
    /\ DeviceFrame
    /\ last.data = CameraFrame(Chars(B64Abc))
    /\ Cardinality(OpenViewers) = 2
    /\ \A v \in OpenViewers :
         ReceivedOnce(v, CameraEnvelope(wsRpiId[last.conn], Chars(JpegPrefix \o B64Abc)))

\* --------------------------------------------------------------------- C10
\* C10: a camera frame whose payload is missing, is not text, or is text that
\* neither starts with "data:" nor is valid base64 is dropped: nothing is
\* sent to anyone, the device connection stays open, the registry is
\* unchanged, and a valid frame from the same device would still reach every
\* open viewer.
Rejected(frame) ==
    \/ ~Truthy(frame)
    \/ ~IsChars(frame)
    \/ ~StartsWith(frame.cs, DataScheme) /\ ~atobAccepts(frame.cs)

StillBroadcasts ==
    LET out == RPiMessageSends(String(wsRpiId[last.conn]), CameraFrame(Chars(B64Abc)))
    IN  \A v \in OpenViewers : Cardinality({i \in DOMAIN out : out[i].to = v}) = 1

C10_InvalidFrameDropped ==
    (/\ DeviceFrame
     /\ Field(last.data.obj, "type") = Str("camera_frame")
     /\ Rejected(Field(last.data.obj, "frame")))
    => /\ sent = <<>>
       /\ readyState[last.conn] = "OPEN"
       /\ rpiConnections = last.registry
       /\ ~crashed
       /\ StillBroadcasts

\* A payload with a character outside the alphabet is dropped while a viewer
\* is open.
C10_Witness ==
    /\ DeviceFrame
    /\ last.data = CameraFrame(Chars(<<"Q", "!", "J", "D">>))
    /\ OpenViewers # {}
    /\ sent = <<>>
    /\ readyState[last.conn] = "OPEN"

\* --------------------------------------------------------------------- C11
\* The request path is on the device prefix "/rpi/"; the viewer path.
OnDevicePrefix(p) == Len(p) >= 3 /\ p[1] = "" /\ p[2] = "rpi"
ViewerPath == <<"", "appws">>
ExpectedStatus(p) ==
    IF OnDevicePrefix(p) THEN (IF p[3] = "" THEN 400 ELSE 101)
    ELSE IF p = ViewerPath THEN 101 ELSE 404
AllPathnames == Pathnames \cup OtherPathnames

\* C11: an upgrade request on the device prefix with an empty identifier is
\* answered 400 and one on a path that is neither a device path nor the viewer
\* path is answered 404; in both cases no connection is created, nothing is
\* sent to any viewer, and the registry, the subscriptions and the viewer set
\* are as they were.
C11_RefusedUpgrade ==
    [][\A p \in AllPathnames :
          (Upgrade(p) /\ ExpectedStatus(p) # 101) =>
             /\ last'.data.status = ExpectedStatus(p)
             /\ last'.conn = None
             /\ sent' = <<>>
             /\ UNCHANGED <<conn, rpiConnections, uiConnections, uiClients>>]_vars

\* A device path without identifier is refused while a viewer and a device
\* are connected.
C11_Witness ==
    /\ last.op = "upgrade"
    /\ last.data.pathname = <<"", "rpi", "">>
    /\ last.data.status = 400
    /\ OpenViewers # {}
    /\ last.registry # {}

\* --------------------------------------------------------------------- C12
\* The connections the registry holds; the connections of the viewer set.
Registered == {e[2] : e \in rpiConnections}
InViewerSet == {uiClients[i] : i \in DOMAIN uiClients}

\* C12: a connection accepted on the device path is entered into the registry
\* under the path's identifier as it stands and never into the viewer set, a
\* connection accepted on the viewer path is entered into the viewer set and
\* never into the registry, and no connection is ever in both.
C12_DeviceOrViewer ==
    /\ Registered \cap InViewerSet = {}
    /\ \A h \in Handles :
          /\ kind[h] = "rpi" => h \notin InViewerSet
          /\ kind[h] = "ui" => h \notin Registered
          /\ kind[h] = "none" => h \notin Registered \cup InViewerSet
    /\ AcceptedDevice =>
          /\ <<last.data.pathname[3], last.conn>> \in rpiConnections
          /\ MapKeys(rpiConnections) = MapKeys(last.registry) \cup {last.data.pathname[3]}
    /\ AcceptedViewer =>
          /\ last.conn \in InViewerSet
          /\ rpiConnections = last.registry

\* A device is accepted as "RPI1" while "rpi1" is registered and a viewer is
\* in the viewer set.
C12_Witness ==
    /\ AcceptedDevice
    /\ last.data.pathname = <<"", "rpi", "RPI1">>
    /\ MapHas(rpiConnections, "rpi1")
    /\ MapHas(rpiConnections, "RPI1")
    /\ InViewerSet # {}

\* --------------------------------------------------------------------- C13
\* A frame that is not a register frame and names no device.
NoTarget(message) ==
    Field(message, "type") # Str("register") /\ ~Truthy(Field(message, "rpiId"))

\* C13: a viewer frame that is not a register frame and carries no device
\* identifier is answered with one error envelope to that viewer; nothing
\* goes to a device or to another viewer and the registry is as it was.
C13_MissingTarget ==
    (ViewerFrame /\ NoTarget(last.data.obj)) =>
        /\ Len(sent) = 1
        /\ sent[1].to = last.conn
        /\ sent[1].env.type = Str("error")
        /\ rpiConnections = last.registry
        /\ uiClients = last.clients

\* Such a frame arrives while a device is registered and open and a second
\* viewer is open.
C13_Witness ==
    /\ ViewerFrame
    /\ NoTarget(last.data.obj)
    /\ \E d \in Registered : readyState[d] = "OPEN"
    /\ OpenViewers \ {last.conn} # {}

\* --------------------------------------------------------------------- C14
\* The last handler took a register frame from a viewer; the frame names a
\* station and a device.
ViewerRegister == ViewerFrame /\ Field(last.data.obj, "type") = Str("register")
CarriesBoth(message) ==
    /\ Field(message, "stationId") \notin {Undefined, Null, Str("")}
    /\ Truthy(Field(message, "rpiId"))
SubscriptionKey(message) ==
    <<"ui_", String(Field(message, "stationId")), "_", String(Field(message, "rpiId"))>>
Confirmed ==
    /\ Len(sent) = 1
    /\ sent[1].to = last.conn
    /\ sent[1].env.type = Str("registered")
    /\ <<SubscriptionKey(last.data.obj), last.conn>> \in uiConnections

\* C14 as stated: every register frame of a viewer is answered with one
\* registration confirmation to that viewer, the subscription is recorded
\* under the key made of the station and the device identifier, and nothing
\* goes to a device or another viewer.
C14_EveryRegisterConfirmed ==
    ViewerRegister => (Confirmed /\ rpiConnections = last.registry)

\* C14, amended: a register frame that names both a station and a device is
\* answered with one registration confirmation to that viewer and recorded
\* under the key made of both; a register frame that lacks either is answered
\* with nothing and recorded under no key; in both cases nothing goes to a
\* device or another viewer.
C14_CompleteRegisterConfirmed ==
    ViewerRegister =>
        /\ rpiConnections = last.registry
        /\ IF CarriesBoth(last.data.obj) THEN Confirmed
           ELSE /\ sent = <<>>
                /\ \A e \in uiConnections :
                      e[2] = last.conn => e[1] # SubscriptionKey(last.data.obj)

\* A complete register frame is confirmed while a device and a second viewer
\* are open.
C14_Witness ==
    /\ ViewerRegister
    /\ CarriesBoth(last.data.obj)
    /\ Confirmed
    /\ \E d \in Registered : readyState[d] = "OPEN"
    /\ OpenViewers \ {last.conn} # {}

\* --------------------------------------------------------------------- C15
\* The last handler took a command for a device that is registered and open.
RoutedCommand ==
    /\ ViewerFrame
    /\ Field(last.data.obj, "type") # Str("register")
    /\ Truthy(Field(last.data.obj, "rpiId"))
    /\ LET target == MapGet(last.registry, String(Field(last.data.obj, "rpiId")))
       IN  target # None /\ readyState[target] = "OPEN"

\* C15: a command for a registered, open device is sent to that device
\* whatever the viewer's registration: none, for another device, or for this
\* device.
C15_RegistrationDoesNotGate ==
    RoutedCommand =>
        LET message == last.data.obj
            target == MapGet(last.registry, String(Field(message, "rpiId")))
        IN  /\ Cardinality(SentTo(target)) = 1
            /\ \A i \in SentTo(target) :
                  /\ sent[i].env.type = Str("command")
                  /\ sent[i].env.command = Field(message, "command")
                  /\ sent[i].env.direction = Field(message, "direction")
            /\ OnlyTo({target, last.conn})

\* A viewer registered for rpi1 has its command for rpi2 delivered.
C15_Witness ==
    /\ RoutedCommand
    /\ clientRpiId[last.conn] = Str("rpi1")
    /\ Field(last.data.obj, "rpiId") = Str("rpi2")
    /\ SentTo(MapGet(last.registry, "rpi2")) # {}

\* --------------------------------------------------------------------- C16
\* The last handler took a command whose device is absent or not open.
FailedRoute ==
    /\ ViewerFrame
    /\ Field(last.data.obj, "type") # Str("register")
    /\ Truthy(Field(last.data.obj, "rpiId"))
    /\ LET target == MapGet(last.registry, String(Field(last.data.obj, "rpiId")))
       IN  target = None \/ readyState[target] # "OPEN"

\* C16: a command that cannot be routed is reported to the viewer that sent
\* it and to nobody else: no other viewer and no device is sent anything.
C16_FailureReportedToSenderOnly ==
    FailedRoute =>
        /\ SentTo(last.conn) # {}
        /\ \A h \in Handles \ {last.conn} : SentTo(h) = {}
        /\ \A i \in DOMAIN sent : sent[i].env.type = Str("error")

\* A command for a device that is not registered, with another viewer and a
\* device open.
C16_Witness ==
    /\ FailedRoute
    /\ MapGet(last.registry, String(Field(last.data.obj, "rpiId"))) = None
    /\ OpenViewers \ {last.conn} # {}
    /\ \E d \in Registered : readyState[d] = "OPEN"
    /\ SentTo(last.conn) # {}

\* --------------------------------------------------------------------- C17
\* C17: a register frame of a device makes the relay send every open viewer
\* one status envelope that is not the generic rpi_response envelope and
\* carries the device's identifier and the frame's status and message; the
\* identifiers of the registry are as they were.
C17_DeviceRegisterStatus ==
    (DeviceFrame /\ Field(last.data.obj, "type") = Str("register")) =>
        /\ \A v \in OpenViewers :
              /\ Cardinality(SentTo(v)) = 1
              /\ \A i \in SentTo(v) :
                    /\ sent[i].env.type # Str("rpi_response")
                    /\ Field(sent[i].env, "rpiId") = wsRpiId[last.conn]
                    /\ Field(sent[i].env, "status") = Field(last.data.obj, "status")
                    /\ Field(sent[i].env, "message") = Field(last.data.obj, "message")
        /\ MapKeys(rpiConnections) = MapKeys(last.registry)

\* --------------------------------------------------------------------- C18
\* The last handler took a device frame that is neither a camera frame nor a
\* register frame.
GenericFrame ==
    /\ DeviceFrame
    /\ Field(last.data.obj, "type") \notin {Str("camera_frame"), Str("register")}

\* C18: a device frame that is neither a camera frame nor a register frame
\* makes the relay send every open viewer exactly one rpi_response envelope
\* with the device's identifier and the frame's status and message, and send
\* nothing to any device.
C18_GenericResponse ==
    GenericFrame =>
        /\ \A v \in OpenViewers :
              /\ Cardinality(SentTo(v)) = 1
              /\ \A i \in SentTo(v) :
                    /\ sent[i].env.type = Str("rpi_response")
                    /\ Field(sent[i].env, "rpiId") = wsRpiId[last.conn]
                    /\ Field(sent[i].env, "status") = Field(last.data.obj, "status")
                    /\ Field(sent[i].env, "message") = Field(last.data.obj, "message")
        /\ OnlyTo(OpenViewers)

\* A status frame of a device reaches two open viewers while a second device
\* is registered.
C18_Witness ==
    /\ GenericFrame
    /\ last.data = StatusFrame
    /\ Cardinality(OpenViewers) >= 2
    /\ Len(sent) = Cardinality(OpenViewers)
    /\ Cardinality(Registered) >= 1

\* --------------------------------------------------------------------- C19
\* What the closing of connection h does: a device's entry is deleted and
\* every open viewer is told once; a viewer leaves the viewer set.
CloseEffect(h) ==
    /\ last'.conn = h
    /\ IF kind[h] = "rpi"
       THEN /\ last'.op = "rpiClose"
            /\ ~MapHas(rpiConnections', String(wsRpiId[h]))
            /\ \A v \in OpenViewers :
                  /\ Cardinality({i \in DOMAIN sent' : sent'[i].to = v}) = 1
                  /\ \A i \in DOMAIN sent' :
                        sent'[i].env = [type |-> Str("rpi_disconnected"), rpiId |-> wsRpiId[h]]
            /\ Len(sent') = Cardinality(OpenViewers)
       ELSE /\ last'.op = "uiClose"
            /\ \A i \in DOMAIN uiClients' : uiClients'[i] # h
            /\ sent' = <<>>

\* After CLOSED nothing runs on the connection, and a close handler leaves
\* its connection CLOSED, with its effect, once.
ClosedOnce(h) ==
    /\ readyState[h] = "CLOSED" => (readyState'[h] = "CLOSED" /\ last'.conn # h)
    /\ (readyState[h] # "CLOSED" /\ readyState'[h] = "CLOSED") => CloseEffect(h)
    /\ (last'.op \in {"rpiClose", "uiClose"} /\ last'.conn = h) =>
            (readyState[h] # "CLOSED" /\ readyState'[h] = "CLOSED")

ClosedViewers == {h \in Handles : kind[h] = "ui" /\ readyState[h] = "CLOSED"}

\* C20: the close of a viewer takes it, and only it, out of the viewer set,
\* sends nothing and leaves the registry as it was; a closed viewer is never
\* in the viewer set and is sent nothing by any later handler.
C20_ViewerClosed ==
    /\ last.op = "uiClose" =>
          /\ InViewerSet = {last.clients[i] : i \in DOMAIN last.clients} \ {last.conn}
          /\ sent = <<>>
          /\ rpiConnections = last.registry
    /\ \A h \in ClosedViewers : h \notin InViewerSet /\ SentTo(h) = {}

\* A device frame is broadcast after a viewer closed, and reaches the viewer
\* that is still open.
C20_Witness ==
    /\ DeviceFrame
    /\ ClosedViewers # {}
    /\ OpenViewers # {}
    /\ \A v \in OpenViewers : SentTo(v) # {}

\* --------------------------------------------------------------------- C21
\* The last handler took text from a device that does not parse; the run
\* before the last took such text on the same connection.
BadDeviceFrame == last.op = "rpiMessage" /\ ~last.data.json
AfterBadDeviceFrame ==
    /\ last.prev.op = "rpiMessage"
    /\ ~last.prev.data.json
    /\ last.op = "rpiMessage"
    /\ last.conn = last.prev.conn

\* C21: text from a device that does not parse is dropped: nothing is sent,
\* the connection stays open, the registry and the viewer set are as they
\* were; a status frame that follows on the same connection is broadcast to
\* every open viewer as always.
C21_BadDeviceFrameDropped ==
    /\ BadDeviceFrame =>
          /\ sent = <<>>
          /\ readyState[last.conn] = "OPEN"
          /\ rpiConnections = last.registry
          /\ uiClients = last.clients
          /\ ~crashed
    /\ (AfterBadDeviceFrame /\ last.data.json) =>
          /\ \A v \in OpenViewers :
                ReceivedOnce(v, [type |-> Str("rpi_response"), rpiId |-> wsRpiId[last.conn],
                                 status |-> last.data.obj.status,
                                 message |-> last.data.obj.message])
          /\ OnlyTo(OpenViewers)

\* A status frame is broadcast right after text that did not parse arrived on
\* the same, registered connection.
C21_Witness ==
    /\ AfterBadDeviceFrame
    /\ last.data = StatusFrame
    /\ <<String(wsRpiId[last.conn]), last.conn>> \in rpiConnections
    /\ OpenViewers # {}
    /\ Len(sent) = Cardinality(OpenViewers)

\* --------------------------------------------------------------------- C22
\* The run before the last answered a command for identifier d with an error
\* because d had no open connection.
FailedBefore(d) ==
    /\ last.prev.op = "uiMessage"
    /\ last.prev.data.json
    /\ Field(last.prev.data.obj, "rpiId") = Str(d)
    /\ Len(last.prev.sent) = 1
    /\ last.prev.sent[1].env.type = Str("error")

\* C22: a command that could not be routed is not kept: a device that
\* registers, at any time, is sent nothing, and whatever a device is sent
\* comes from the command being handled at that moment.
C22_NoQueue ==
    /\ AcceptedDevice => \A d \in Devices : SentTo(d) = {}
    /\ \A i \in DOMAIN sent :
          kind[sent[i].to] = "rpi" =>
             /\ ViewerFrame
             /\ <<String(Field(last.data.obj, "rpiId")), sent[i].to>> \in last.registry
             /\ sent[i].env.command = Field(last.data.obj, "command")

\* A device registers as rpi2 right after a command for rpi2 was answered
\* with an error, the viewer that sent it still open.
C22_Witness ==
    /\ AcceptedDevice
    /\ wsRpiId[last.conn] = Str("rpi2")
    /\ FailedBefore("rpi2")
    /\ ~MapHas(last.registry, "rpi2")
    /\ readyState[last.prev.conn] = "OPEN"
    /\ SentTo(last.prev.conn) # {}

\* --------------------------------------------------------------------- C23
\* C23: failures leave no mark on the relay: it keeps running, a command of
\* a viewer for a registered, open device is delivered to the device and
\* answered to the viewer, and a frame of a device is broadcast to every open
\* viewer, whatever failed before.
C23_NoGlobalErrorState ==
    /\ ~crashed
    /\ (RoutedCommand /\ throwing = {}) =>
          /\ SentTo(MapGet(last.registry, String(Field(last.data.obj, "rpiId")))) # {}
          /\ SentTo(last.conn) # {}
    /\ (DeviceFrame /\ last.data \in {StatusFrame, CameraFrame(Chars(B64Abc))}) =>
          \A v \in OpenViewers \ throwing : SentTo(v) # {}

\* --------------------------------------------------------------------- C24
\* The last handler took a command for a registered, open device whose send
\* throws, from a viewer whose own send works.
SendToDeviceFailed ==
    /\ RoutedCommand
    /\ MapGet(last.registry, String(Field(last.data.obj, "rpiId"))) \in throwing
    /\ last.conn \notin throwing

\* C24: when the send of a routed command to its device throws, the throw is
\* caught: the relay keeps running, the viewer stays open, the device is sent
\* nothing then or by a retry, nobody but the viewer is sent anything, and the
\* registry and the viewer set are as they were.
C24_FailedCommandSendCaught ==
    SendToDeviceFailed =>
        /\ ~crashed
        /\ readyState[last.conn] = "OPEN"
        /\ \A d \in Devices : SentTo(d) = {}
        /\ OnlyTo({last.conn})
        /\ rpiConnections = last.registry
        /\ uiClients = last.clients

\* Such a command, with a second viewer or device open beside the two.
C24_Witness ==
    /\ SendToDeviceFailed
    /\ \E h \in Handles :
          /\ h \notin {last.conn, MapGet(last.registry, String(Field(last.data.obj, "rpiId")))}
          /\ readyState[h] = "OPEN"
    /\ ~crashed

\* --------------------------------------------------------------------- C25
\* The identifier a viewer frame names, as the registry is asked for it.
TargetId == String(Field(last.data.obj, "rpiId"))

\* C25: a command is sent to one device connection at most, the one the
\* registry held under the frame's identifier when the frame was handled, and
\* it is sent to that one if it is open; no other device connection, under
\* another identifier or an older one under the same, is sent anything.
C25_OneDevicePerCommand ==
    ViewerFrame =>
        /\ \A d \in Devices :
              SentTo(d) # {} =>
                 /\ Field(last.data.obj, "type") # Str("register")
                 /\ <<TargetId, d>> \in last.registry
                 /\ Cardinality(SentTo(d)) = 1
        /\ \A e \in last.registry :
              (/\ Field(last.data.obj, "type") # Str("register")
               /\ Truthy(Field(last.data.obj, "rpiId"))
               /\ e[1] = TargetId
               /\ readyState[e[2]] = "OPEN") => SentTo(e[2]) # {}

\* A command for rpi1 is delivered while rpi2 is registered and open too.
C25_Witness ==
    /\ ViewerFrame
    /\ TargetId = "rpi1"
    /\ \E d \in Devices : SentTo(d) # {}
    /\ \E e \in last.registry : e[1] = "rpi2" /\ readyState[e[2]] = "OPEN"

TwoFrames(op) ==
    /\ last.prev.op = op
    /\ last.op = op
    /\ last.prev.conn = last.conn
    /\ last.prev.data.json
    /\ last.data.json

\* What a sequence of sends holds for h.
Delivered(sends, h) == {sends[i].env : i \in {j \in DOMAIN sends : sends[j].to = h}}

\* C27: frames of one connection are handled one at a time, in the order
\* they come: a handler run sends each connection one envelope at most; of
\* two commands of a viewer the device is sent the first in the first run and
\* the second in the second; of two frames of a device each viewer is sent
\* the first in the first run and the second in the second.
C27_ArrivalOrder ==
    /\ \A h \in Handles : Cardinality(SentTo(h)) <= 1
    /\ TwoFrames("uiMessage") =>
          \A d \in Devices :
             /\ \A env \in Delivered(last.prev.sent, d) :
                   env.command = last.prev.data.obj.command
             /\ \A env \in Delivered(sent, d) :
                   env.command = last.data.obj.command
    /\ TwoFrames("rpiMessage") =>
          \A v \in Handles :
             /\ \A env \in Delivered(last.prev.sent, v) :
                   env.message = last.prev.data.obj.message
             /\ \A env \in Delivered(sent, v) :
                   env.message = last.data.obj.message

\* A viewer's "move" and then its "stop" have reached the same device.
C27_Witness ==
    /\ TwoFrames("uiMessage")
    /\ last.prev.data.obj.command = Str("move")
    /\ last.data.obj.command = Str("stop")
    /\ \E d \in Devices :
          /\ Delivered(last.prev.sent, d) # {}
          /\ Delivered(sent, d) # {}

\* --------------------------------------------------------------------- C28
\* C28: right after a device connection is registered under d, looking d up
\* gives that connection, and the entries of the other identifiers are what
\* they were.
C28_LookupAfterRegister ==
    AcceptedDevice =>
        LET d == last.data.pathname[3]
        IN  /\ MapGet(rpiConnections, d) = last.conn
            /\ \A k \in MapKeys(last.registry) \cup MapKeys(rpiConnections) :
                  k # d => MapGet(rpiConnections, k) = MapGet(last.registry, k)
            /\ {e \in rpiConnections : e[1] # d} = {e \in last.registry : e[1] # d}

\* A device registers while the registry holds another identifier.
C28_Witness ==
    /\ AcceptedDevice
    /\ \E e \in last.registry : e[1] # last.data.pathname[3]
    /\ MapGet(rpiConnections, last.data.pathname[3]) = last.conn

\* --------------------------------------------------------------------- C29
\* The last handler was one that broadcasts; the viewer set was empty.
DeviceEvent == AcceptedDevice \/ last.op \in {"rpiMessage", "rpiClose"}
NoViewers == last.clients = <<>>

\* C29: a device connect, close or frame does to the registry and to the
\* device's connection what it does with viewers present, and with the viewer
\* set empty it sends nothing and raises nothing.
C29_EmptyBroadcast ==
    /\ AcceptedDevice =>
          /\ rpiConnections =
                {e \in last.registry : e[1] # String(wsRpiId[last.conn])}
                   \cup {<<String(wsRpiId[last.conn]), last.conn>>}
          /\ readyState[last.conn] = "OPEN"
    /\ last.op = "rpiClose" =>
          /\ rpiConnections = {e \in last.registry : e[1] # String(wsRpiId[last.conn])}
          /\ readyState[last.conn] = "CLOSED"
    /\ last.op = "rpiMessage" =>
          /\ rpiConnections = last.registry
          /\ readyState[last.conn] = "OPEN"
    /\ (DeviceEvent /\ NoViewers) => (sent = <<>> /\ ~crashed)

\* A device closes with no viewer connected, another device registered.
C29_Witness ==
    /\ last.op = "rpiClose"
    /\ NoViewers
    /\ rpiConnections # {}
    /\ sent = <<>>
    /\ ~crashed

\* --------------------------------------------------------------------- C30
\* C30: while the connection that registered last under d is open, the
\* registry resolves d to it, and a command for d is sent to it and not
\* answered with an error.
C30_LatestOpenResolves ==
    \A d \in RpiIds :
        (LatestFor(d) # None /\ readyState[LatestFor(d)] = "OPEN") =>
           /\ MapGet(rpiConnections, d) = LatestFor(d)
           /\ (/\ ViewerFrame
               /\ Field(last.data.obj, "type") # Str("register")
               /\ Field(last.data.obj, "rpiId") = Str(d)) =>
                  /\ SentTo(LatestFor(d)) # {}
                  /\ \A i \in SentTo(last.conn) : sent[i].env.type # Str("error")

\* The type of the latest lifecycle envelope for d that viewer h was passed,
\* the last handler run included.
LatestLifecycle(h, d) == SeenAfter(last.seen, sent).ev[h][d]

\* C31: for every open viewer and every identifier d, the latest lifecycle
\* envelope the viewer was passed for d says whether d is an entry of the
\* registry now: rpi_connected means it is, rpi_disconnected means it is not.
C31_LifecycleAgreesWithRegistry ==
    \A h \in OpenViewers : \A d \in RpiIds :
        /\ LatestLifecycle(h, d) = "rpi_connected"
              => \E e \in rpiConnections : e[1] = d
        /\ LatestLifecycle(h, d) = "rpi_disconnected"
              => ~\E e \in rpiConnections : e[1] = d

\* A viewer saw rpi1 connect, be replaced by a second connection, and the
\* first connection close while the second one is still open.
C31_Witness ==
    /\ last.op = "rpiClose"
    /\ \E e \in last.registry : e[1] = "rpi1" /\ e[2] # last.conn
                                  /\ readyState[e[2]] = "OPEN"
    /\ \E h \in OpenViewers : /\ last.seen.ev[h]["rpi1"] = "rpi_connected"
                              /\ LatestLifecycle(h, "rpi1") = "rpi_disconnected"

\* C32: after every step each entry of the subscription map refers to a viewer
\* connection that has not closed, whatever register frames that viewer sent,
\* and the close of a viewer keeps every entry held by another, open viewer.
C32_SubscriptionsOfOpenViewers ==
    [][/\ \A e \in uiConnections' : readyState'[e[2]] # "CLOSED"
       /\ \A v \in Handles :
            (kind[v] = "ui" /\ readyState[v] # "CLOSED" /\ readyState'[v] = "CLOSED")
            => \A e \in uiConnections :
                 (e[2] # v /\ readyState[e[2]] = "OPEN") => e \in uiConnections'
      ]_vars

\* The envelope is the confirmation of lines 274-278, known by its message
\* text (its type is overwritten by the spread, see C3).
IsConfirmation(env) ==
    /\ "message" \in DOMAIN env
    /\ "parts" \in DOMAIN env.message
    /\ env.message.parts[1] = "Command sent to RPi "

\* C33: a confirmation is passed to a viewer only by the handler of that
\* viewer's command frame, and only after the same handler passed the command
\* envelope (same command, direction and timestamp) to the device connection
\* the registry held under the frame's identifier; without that send to the
\* device there is no confirmation.
C33_ConfirmationAfterDeviceSend ==
    \A j \in DOMAIN sent :
        IsConfirmation(sent[j].env) =>
            /\ last.op = "uiMessage"
            /\ sent[j].to = last.conn
            /\ \E i \in 1..(j - 1) :
                 /\ kind[sent[i].to] = "rpi"
                 /\ <<String(Field(last.data.obj, "rpiId")), sent[i].to>> \in last.registry
                 /\ sent[i].to \notin throwing
                 /\ sent[i].env.type = Str("command")
                 /\ \A f \in {"command", "direction", "timestamp"} :
                        sent[i].env[f] = sent[j].env[f]

\* A command was confirmed to its viewer while the send to some other
\* connection throws.
C33_Witness ==
    /\ throwing # {}
    /\ \E j \in DOMAIN sent : IsConfirmation(sent[j].env) /\ kind[sent[j].to] = "ui"

\* C34: the handler of a device frame passes envelopes to viewer connections
\* only, never to a device, the sender included; the handler of a viewer frame
\* passes envelopes to device connections and to the sending viewer only,
\* never to another viewer.
C34_Directional ==
    /\ last.op = "rpiMessage" => \A i \in DOMAIN sent : kind[sent[i].to] = "ui"
    /\ last.op = "uiMessage" =>
          \A i \in DOMAIN sent : kind[sent[i].to] = "ui" => sent[i].to = last.conn

\* A device frame was relayed while two devices were connected.
C34_Witness ==
    /\ DeviceFrame
    /\ sent # <<>>
    /\ Cardinality({d \in Devices : readyState[d] = "OPEN"}) = 2

\* C35: once the cleanup of the hook's effect has run, no step creates a
\* WebSocket, whatever the order of the cleanup, the close event of the
\* socket it closed and the timers.
C35_NoSocketAfterCleanup ==
    [][~mounted => \A s \in SocketIds :
                      webSockets'[s].readyState # "NONE" => s \in Created]_vars

\* The delays the claim allows, in milliseconds.
ReconnectDelays == {1000, 2000, 4000, 8000}

\* C36: while the hook is mounted, every socket that has closed is followed,
\* in the end, by a new socket created for that close and carrying all four
\* handlers (so that its own close is followed by another), unless the hook
\* is unmounted first; and every reconnect timer is armed with a delay of
\* 1000, 2000, 4000 or 8000 ms, never more than 10000 ms.
C36_Reconnects ==
    /\ \A s \in SocketIds :
         (mounted /\ webSockets[s].readyState = "CLOSED")
         ~> (\/ ~mounted
             \/ \E n \in SocketIds : /\ webSockets[n].after = s
                                     /\ webSockets[n].handlers = AllHandlers)
    /\ [](\A t \in timers : t.fn = "reconnect" =>
              t.delay \in ReconnectDelays /\ t.delay <= 10000)

\* The hook is mounted, its first socket closed, the second socket, made by
\* the reconnect, closed without ever opening, and a third one was made.
C36_Witness ==
    /\ mounted
    /\ webSockets[2].after = 1
    /\ webSockets[3].after = 2
    /\ webSockets[3].handlers = AllHandlers
    /\ state.connectionStatus = FALSE
    /\ wsRef = 3

\* C37: a call of sendMessage changes nothing of the hook; it transmits at
\* most one frame, and only when the message has an rpiId and the current
\* socket is OPEN: then the frame goes to that socket, with the rpiId as a
\* string and every other field as given.  Without an rpiId, or with no
\* current socket or one that is not OPEN, nothing is transmitted, and no
\* other callback of the hook transmits anything later.
C37_SendOnlyWhenOpen ==
    [][IF hookLast'.op = "sendMessage"
       THEN LET message == hookLast'.data
                out == hookLast'.transmitted
                open == wsRef # None /\ webSockets[wsRef].readyState = "OPEN"
            IN  /\ UNCHANGED <<mounted, webSockets, wsRef, reconnectTimeoutRef,
                               frameTimeoutRef, timers, state>>
                /\ Len(out) <= 1
                /\ out # <<>> =>
                     /\ "rpiId" \in DOMAIN message
                     /\ message.rpiId \notin {Undefined, Null}
                     /\ open
                     /\ out[1].socket = wsRef
                     /\ out[1].frame.rpiId = Str(String(message.rpiId))
                     /\ \A f \in DOMAIN message \ {"rpiId"} :
                            out[1].frame[f] = message[f]
                /\ ("rpiId" \notin DOMAIN message \/ ~open) => out = <<>>
       ELSE hookLast'.transmitted = <<>>
      ]_vars

\* A message whose rpiId is the number 1 was transmitted with rpiId "1".
C37_Witness ==
    /\ hookLast.op = "sendMessage"
    /\ Field(hookLast.data, "rpiId") = Num(1)
    /\ hookLast.transmitted # <<>>
    /\ hookLast.transmitted[1].frame.rpiId = Str("1")

\* rpiStatus[d] of the hook state, as text: "absent" when the object has no
\* such key.
RpiStatusOf(st, d) ==
    IF <<d, TRUE>> \in st.rpiStatus /\ <<d, FALSE>> \notin st.rpiStatus THEN "true"
    ELSE IF <<d, FALSE>> \in st.rpiStatus /\ <<d, TRUE>> \notin st.rpiStatus THEN "false"
    ELSE "absent"

\* C38: rpiStatus[d] is true when the last lifecycle envelope received for d
\* was rpi_connected and false when it was rpi_disconnected; handling a
\* lifecycle envelope for d leaves rpiStatus of every other identifier as it
\* was, and handling text that does not parse leaves the whole state, and
\* the frame timer, as they were.
C38_RpiStatusFollowsLifecycle ==
    /\ [](\A d \in RpiIds :
            /\ hookLast.heard[d] = "rpi_connected" => RpiStatusOf(state, d) = "true"
            /\ hookLast.heard[d] = "rpi_disconnected" => RpiStatusOf(state, d) = "false")
    /\ [][hookLast'.op = "handleMessage" =>
            /\ ~hookLast'.data.json => UNCHANGED <<state, frameTimeoutRef>>
            /\ \A d \in RpiIds :
                 (/\ hookLast'.data.json
                  /\ Field(hookLast'.data.obj, "type") \in
                        {Str("rpi_connected"), Str("rpi_disconnected")}
                  /\ Field(hookLast'.data.obj, "rpiId") = Str(d))
                 => \A o \in RpiIds \ {d} :
                        RpiStatusOf(state', o) = RpiStatusOf(state, o)
      ]_vars

\* rpi1 connected and then disconnected, rpi2 connected, and the last text
\* received did not parse.
C38_Witness ==
    /\ hookLast.op = "handleMessage"
    /\ ~hookLast.data.json
    /\ hookLast.heard["rpi1"] = "rpi_disconnected"
    /\ hookLast.heard["rpi2"] = "rpi_connected"
    /\ RpiStatusOf(state, "rpi1") = "false"
    /\ RpiStatusOf(state, "rpi2") = "true"

====
